---- MODULE Spec2Model ----
(***************************************************************************)
(* Fetch client of karolakvido (src/src/karolakvido/scraper.py):           *)
(* KarolAKvidoClient with its adaptive throttle delay, fetch_text under    *)
(* the tenacity retry decorator, and the collect_events loop.              *)
(*                                                                         *)
(* Durations are integers in milliseconds; the backoff factor is in        *)
(* tenths (20 is 2.0). Products with the factor and with 0.9 are           *)
(* truncated to whole milliseconds.                                        *)
(***************************************************************************)
EXTENDS Integers, Sequences, FiniteSets, TLC

VARIABLES
  request_delay,            \* self.request_delay (ms)
  max_request_delay,        \* self.max_request_delay (ms)
  adaptive_backoff_factor,  \* self.adaptive_backoff_factor (tenths)
  wait_before_stop,         \* the installed tenacity calls the wait function before it asks stop
  current_delay,            \* self._current_delay (ms)
  op,               \* top-level call in progress: "idle", "fetch_text", "collect_events"
  ncalls,           \* top-level calls started on this client
  pc,               \* "idle", "attempt" (fetch_text body is about to run), "fetched" (fetch_text ended)
  target,           \* 0: index page or the url of a direct fetch_text call; i >= 1: detail page of candidate i
  attempt_number,   \* tenacity's retry_state.attempt_number of the running fetch_text call
  requests_made,    \* HTTP requests issued by the running (or last) fetch_text call
  last_response,    \* the response of the last HTTP request
  delay_before,     \* value of current_delay when the last HTTP request was issued
  outcome,          \* how the last fetch_text call ended
  basic_events,     \* candidates returned by parse_events
  events,           \* the list collect_events builds
  refetch,          \* the running fetch_text call repeats one that raised, for the same candidate
  result,           \* how the last top-level call ended
  last_io,          \* the latest sleep or HTTP request of the client
  before_get,       \* the sleep or request made directly before the latest HTTP request
  page,             \* the markup handed to parse_events or parse_detail, with its other arguments
  parsed            \* what that call returned or raised

vars == << request_delay, max_request_delay, adaptive_backoff_factor, wait_before_stop,
           current_delay,
           op, ncalls, pc, target, attempt_number, requests_made, last_response,
           delay_before, outcome, basic_events, events, refetch,
           result, last_io, before_get, page, parsed >>

parsing == << page, parsed >>

-----------------------------------------------------------------------------
(* Bounds of the model *)

MaxCalls == 2
MaxCandidates == 2
MaxStart == 2

(* Program constants *)

StopAfterAttempt == 5
WaitMultiplierMs == 1000
WaitMinMs == 1000
WaitMaxMs == 8000
RetryAfterCapMs == 90000
DefaultDelayMs == 1000

Min(a, b) == IF a <= b THEN a ELSE b
Max(a, b) == IF a >= b THEN a ELSE b

RECURSIVE Pow2(_)
Pow2(n) == IF n <= 0 THEN 1 ELSE 2 * Pow2(n - 1)

-----------------------------------------------------------------------------
(* Inputs: constructor arguments, Retry-After header values, responses *)

ConstructorArgs ==
  { [request_delay |-> 1000, max_request_delay |-> 16000, adaptive_backoff_factor |-> 20],
    [request_delay |-> 0,    max_request_delay |-> 2000,  adaptive_backoff_factor |-> 20],
    [request_delay |-> 1000, max_request_delay |-> 500,  adaptive_backoff_factor |-> 5],
    [request_delay |-> -500, max_request_delay |-> -1,   adaptive_backoff_factor |-> 20] }

HintSeconds == {0, 3, 120}

RetryAfterHeaders ==
  { [form |-> f, n |-> 0] : f \in {"absent", "empty", "garbage", "date", "superscript"} }
  \cup { [form |-> "digits", n |-> s] : s \in HintSeconds }

NoHeader == [form |-> "absent", n |-> 0]

Bodies(t) == IF t = 0 THEN 0 .. MaxCandidates ELSE 0 .. MaxStart

Responses(t) ==
  { [kind |-> "ok", status |-> 200, hint |-> NoHeader, body |-> b] : b \in Bodies(t) }
  \cup { [kind |-> k, status |-> 0, hint |-> NoHeader, body |-> 0] : k \in {"timeout", "connerr"} }
  \cup { [kind |-> "http", status |-> s, hint |-> NoHeader, body |-> 0] : s \in {404, 500} }
  \cup { [kind |-> "http", status |-> 429, hint |-> h, body |-> 0] : h \in RetryAfterHeaders }

NoResponse == [kind |-> "none", status |-> 0, hint |-> NoHeader, body |-> 0]

-----------------------------------------------------------------------------
(* Pure functions of scraper.py *)

\* _should_retry_http_error, applied to the exception a response raises
ShouldRetryHttpErrorAll(resp) ==
  resp.kind \in {"timeout", "connerr"} \/ (resp.kind = "http" /\ resp.status >= 400)

ShouldRetryHttpError(resp) ==
  IF resp.kind \in {"timeout", "connerr"} THEN TRUE
  ELSE IF resp.kind = "http" THEN resp.status = 429 \/ resp.status >= 500
  ELSE FALSE

\* _parse_retry_after_seconds: no hint, a number of seconds, or an exception
ParseRetryAfterSeconds(h) ==
  IF h.form \in {"absent", "empty"} THEN [kind |-> "none", ms |-> 0, exc |-> ""]
  ELSE IF h.form = "digits" THEN [kind |-> "seconds", ms |-> h.n * 1000, exc |-> ""]
  \* str.isdigit() accepts superscript digits, float() rejects them
  ELSE IF h.form = "superscript" THEN [kind |-> "raise", ms |-> 0, exc |-> "ValueError"]
  ELSE IF h.form = "garbage" THEN [kind |-> "none", ms |-> 0, exc |-> ""]
  \* an HTTP-date parses; datetime.UTC is then looked up on the datetime class
  ELSE [kind |-> "raise", ms |-> 0, exc |-> "AttributeError"]

\* tenacity wait_exponential(multiplier=1, min=1, max=8) for the attempt that just failed
WaitExponential(n) ==
  Max(Max(0, WaitMinMs), Min(WaitMultiplierMs * Pow2(n - 1), WaitMaxMs))

\* _wait_before_retry: the wait in ms, or the exception the hint parser raises
WaitBeforeRetryHintOnly(n, resp) ==
  LET default_wait == WaitExponential(n)
      retry_after == ParseRetryAfterSeconds(resp.hint)
  IN  IF resp.kind /= "http" THEN [kind |-> "wait", ms |-> default_wait, exc |-> ""]
      ELSE IF resp.status /= 429 THEN [kind |-> "wait", ms |-> default_wait, exc |-> ""]
      ELSE IF retry_after.kind = "raise" THEN retry_after
      ELSE IF retry_after.kind = "none" THEN [kind |-> "wait", ms |-> default_wait, exc |-> ""]
      ELSE [kind |-> "wait", ms |-> Min(retry_after.ms, RetryAfterCapMs), exc |-> ""]

WaitBeforeRetry(n, resp) ==
  LET default_wait == WaitExponential(n)
      retry_after == ParseRetryAfterSeconds(resp.hint)
  IN  IF resp.kind /= "http" THEN [kind |-> "wait", ms |-> default_wait, exc |-> ""]
      ELSE IF resp.status /= 429 THEN [kind |-> "wait", ms |-> default_wait, exc |-> ""]
      ELSE IF retry_after.kind = "raise" THEN retry_after
      ELSE IF retry_after.kind = "none" THEN [kind |-> "wait", ms |-> default_wait, exc |-> ""]
      ELSE [kind |-> "wait", ms |-> Max(default_wait, Min(retry_after.ms, RetryAfterCapMs)), exc |-> ""]

\* KarolAKvidoClient._increase_delay_after_429
IncreaseDelayUncapped(d, base, factor, cap) ==
  IF d <= 0 THEN (IF base /= 0 THEN base ELSE DefaultDelayMs) ELSE (d * factor) \div 10

IncreaseDelayAfter429(d, base, factor, cap) ==
  LET raised == IF d <= 0 THEN (IF base /= 0 THEN base ELSE DefaultDelayMs)
                ELSE (d * factor) \div 10
  IN  Min(raised, cap)

\* KarolAKvidoClient._relax_delay_after_success
RelaxDelayAfterSuccessNoFloor(d, base) == (d * 9) \div 10

RelaxDelayAfterSuccess(d, base) ==
  IF d <= base THEN base ELSE Max(base, (d * 9) \div 10)

\* the exception a failed response raises in fetch_text
ExceptionOf(resp) ==
  IF resp.kind = "timeout" THEN "Timeout"
  ELSE IF resp.kind = "connerr" THEN "ConnectionError"
  ELSE "HTTPError"

\* events.sort(key=starts_at): stable insertion of e into a sorted list
RECURSIVE InsertSorted(_, _)
InsertSorted(e, s) ==
  IF s = << >> THEN << e >>
  ELSE IF s[Len(s)].starts_at <= e.starts_at THEN Append(s, e)
  ELSE Append(InsertSorted(e, SubSeq(s, 1, Len(s) - 1)), s[Len(s)])

SortKeepsOrder(s) == s

RECURSIVE SortByStartsAt(_)
SortByStartsAt(s) ==
  IF s = << >> THEN << >>
  ELSE InsertSorted(s[Len(s)], SortByStartsAt(SubSeq(s, 1, Len(s) - 1)))

-----------------------------------------------------------------------------
(* Sleeps and HTTP requests *)

SleepOp(by, d) == [what |-> "sleep", by |-> by, dur |-> d]
GetOp == [what |-> "get", by |-> "session", dur |-> 0]
NoOp == [what |-> "none", by |-> "", dur |-> 0]

\* KarolAKvidoClient._throttle_before_request: the sleeps it makes
ThrottleNever(d) == << >>

ThrottleBeforeRequest(d) == IF d <= 0 THEN << >> ELSE << SleepOp("throttle", d) >>

-----------------------------------------------------------------------------
NoOutcome == [kind |-> "none", exc |-> "", body |-> 0]
NoPage == [kind |-> "none"]
NotParsed == [kind |-> "none"]
NoResult == [op |-> "none", kind |-> "none", exc |-> "", target |-> 0, events |-> << >>]

\* KarolAKvidoClient.__init__
ClientInit ==
  /\ \E a \in ConstructorArgs :
       /\ request_delay = Max(0, a.request_delay)
       /\ max_request_delay = Max(Max(0, a.request_delay), a.max_request_delay)
       /\ adaptive_backoff_factor = Max(10, a.adaptive_backoff_factor)
       /\ current_delay = Max(0, a.request_delay)
  /\ wait_before_stop \in BOOLEAN
  /\ op = "idle"
  /\ ncalls = 0
  /\ pc = "idle"
  /\ target = 0
  /\ attempt_number = 0
  /\ requests_made = 0
  /\ last_response = NoResponse
  /\ delay_before = current_delay
  /\ outcome = NoOutcome
  /\ basic_events = << >>
  /\ events = << >>
  /\ refetch = FALSE
  /\ result = NoResult
  /\ last_io = NoOp
  /\ before_get = NoOp

Init ==
  /\ ClientInit
  /\ page = NoPage
  /\ parsed = NotParsed

config == << request_delay, max_request_delay, adaptive_backoff_factor, wait_before_stop >>
collected == << basic_events, events, refetch >>
iolog == << last_io, before_get >>

\* a caller invokes client.fetch_text(url)
CallFetchText ==
  /\ op = "idle" /\ ncalls < MaxCalls
  /\ op' = "fetch_text" /\ ncalls' = ncalls + 1
  /\ pc' = "attempt" /\ target' = 0
  /\ attempt_number' = 1 /\ requests_made' = 0
  /\ outcome' = NoOutcome /\ result' = NoResult
  /\ basic_events' = << >> /\ events' = << >>
  /\ refetch' = FALSE
  /\ last_response' = NoResponse /\ delay_before' = current_delay
  /\ UNCHANGED << config, current_delay, iolog >>
  /\ UNCHANGED parsing

\* a caller invokes client.collect_events(calendar_url): the index fetch starts
CallCollectEvents ==
  /\ op = "idle" /\ ncalls < MaxCalls
  /\ op' = "collect_events" /\ ncalls' = ncalls + 1
  /\ pc' = "attempt" /\ target' = 0
  /\ attempt_number' = 1 /\ requests_made' = 0
  /\ outcome' = NoOutcome /\ result' = NoResult
  /\ basic_events' = << >> /\ events' = << >>
  /\ refetch' = FALSE
  /\ last_response' = NoResponse /\ delay_before' = current_delay
  /\ UNCHANGED << config, current_delay, iolog >>
  /\ UNCHANGED parsing

\* one attempt of fetch_text under the retry decorator: throttle, GET, the
\* delay adjustment, and tenacity's decision (return, wait and retry, reraise).
\* After a failure tenacity asks the retry predicate, then stop_after_attempt
\* and the wait function; with reraise=True the exception of the last attempt
\* is raised as it is. The requirements of the repository name no version of
\* tenacity, and its releases differ in the order of the two: up to 8.2 stop
\* is asked first and the wait function is not called after the last attempt,
\* from 8.3 on the wait function is called first, also after the last attempt.
\* wait_before_stop says which of the two a build has installed.
\* fetch_text, what the response does to _current_delay: raised on status 429,
\* relaxed when raise_for_status passes, left alone when the request fails
DelayAfterAnyHttpError(d, resp) ==
  IF resp.kind = "http"
    THEN IncreaseDelayAfter429(d, request_delay, adaptive_backoff_factor, max_request_delay)
  ELSE IF resp.kind = "ok"
    THEN RelaxDelayAfterSuccess(d, request_delay)
  ELSE d

DelayAfterResponse(d, resp) ==
  IF resp.kind = "http" /\ resp.status = 429
    THEN IncreaseDelayAfter429(d, request_delay, adaptive_backoff_factor, max_request_delay)
  ELSE IF resp.kind = "ok"
    THEN RelaxDelayAfterSuccess(d, request_delay)
  ELSE d

Attempt ==
  /\ pc = "attempt"
  /\ \E resp \in Responses(target) :
       LET d0 == current_delay
           slept == ThrottleBeforeRequest(d0)
           d1 == DelayAfterResponse(d0, resp)
           wait == WaitBeforeRetry(attempt_number, resp)
       IN  /\ requests_made' = requests_made + 1
           /\ before_get' = IF slept = << >> THEN last_io ELSE slept[Len(slept)]
           /\ last_response' = resp
           /\ delay_before' = d0
           /\ current_delay' = d1
           /\ IF resp.kind = "ok"
                THEN /\ outcome' = [kind |-> "returned", exc |-> "", body |-> resp.body]
                     /\ pc' = "fetched" /\ last_io' = GetOp
                     /\ UNCHANGED attempt_number
              ELSE IF ~ShouldRetryHttpError(resp)
                THEN /\ outcome' = [kind |-> "raised", exc |-> ExceptionOf(resp), body |-> 0]
                     /\ pc' = "fetched" /\ last_io' = GetOp
                     /\ UNCHANGED attempt_number
              ELSE IF wait_before_stop /\ wait.kind = "raise"
                THEN /\ outcome' = [kind |-> "raised", exc |-> wait.exc, body |-> 0]
                     /\ pc' = "fetched" /\ last_io' = GetOp
                     /\ UNCHANGED attempt_number
              ELSE IF attempt_number >= StopAfterAttempt
                THEN /\ outcome' = [kind |-> "raised", exc |-> ExceptionOf(resp), body |-> 0]
                     /\ pc' = "fetched" /\ last_io' = GetOp
                     /\ UNCHANGED attempt_number
              ELSE IF wait.kind = "raise"
                THEN /\ outcome' = [kind |-> "raised", exc |-> wait.exc, body |-> 0]
                     /\ pc' = "fetched" /\ last_io' = GetOp
                     /\ UNCHANGED attempt_number
              ELSE /\ attempt_number' = attempt_number + 1
                   /\ last_io' = SleepOp("retry", wait.ms)
                   /\ UNCHANGED << outcome, pc >>
  /\ UNCHANGED << config, op, ncalls, target, collected, result >>
  /\ UNCHANGED parsing

\* the direct fetch_text call ends: its body or its error reaches the caller
FetchTextEnds ==
  /\ op = "fetch_text" /\ pc = "fetched"
  /\ result' = [op |-> "fetch_text", kind |-> outcome.kind, exc |-> outcome.exc,
                target |-> 0, events |-> << >>]
  /\ op' = "idle" /\ pc' = "idle"
  /\ UNCHANGED << config, current_delay, ncalls, target, attempt_number, requests_made,
                  last_response, delay_before, outcome, collected, iolog >>
  /\ UNCHANGED parsing

\* the for loop of collect_events moves on to the next candidate; after the
\* last one the list is sorted by starts_at and returned
NextCandidate(evs, n) ==
  IF target < n
    THEN /\ target' = target + 1
         /\ pc' = "attempt" /\ attempt_number' = 1 /\ requests_made' = 0
         /\ events' = evs /\ refetch' = FALSE
         /\ UNCHANGED << op, result >>
    ELSE /\ events' = SortByStartsAt(evs)
         /\ result' = [op |-> "collect_events", kind |-> "returned", exc |-> "",
                       target |-> target, events |-> SortByStartsAt(evs)]
         /\ op' = "idle" /\ pc' = "idle"
         /\ UNCHANGED << target, attempt_number, requests_made, refetch >>

\* collect_events: the fetch of the index page raised; nothing catches it
CollectIndexFailsAsEmpty ==
  /\ op = "collect_events" /\ pc = "fetched" /\ target = 0
  /\ outcome.kind = "raised"
  /\ result' = [op |-> "collect_events", kind |-> "returned", exc |-> "",
                target |-> 0, events |-> << >>]
  /\ op' = "idle" /\ pc' = "idle"
  /\ UNCHANGED << config, current_delay, ncalls, target, attempt_number, requests_made,
                  last_response, delay_before, outcome, collected, iolog >>
  /\ UNCHANGED parsing

CollectIndexFails ==
  /\ op = "collect_events" /\ pc = "fetched" /\ target = 0
  /\ outcome.kind = "raised"
  /\ result' = [op |-> "collect_events", kind |-> "raised", exc |-> outcome.exc,
                target |-> 0, events |-> << >>]
  /\ op' = "idle" /\ pc' = "idle"
  /\ UNCHANGED << config, current_delay, ncalls, target, attempt_number, requests_made,
                  last_response, delay_before, outcome, collected, iolog >>
  /\ UNCHANGED parsing

\* collect_events: the index page is parsed into its candidates
CollectIndexParsed ==
  /\ op = "collect_events" /\ pc = "fetched" /\ target = 0
  /\ outcome.kind = "returned"
  /\ basic_events' = [i \in 1 .. outcome.body |-> i]
  /\ NextCandidate(<< >>, outcome.body)
  /\ UNCHANGED << config, current_delay, ncalls, last_response, delay_before, outcome,
                  iolog >>
  /\ UNCHANGED parsing

\* collect_events: the detail page was fetched; parse_detail returns an Event
\* or raises ValueError (a page without a date), which skips the candidate
CollectDetailParsed ==
  /\ op = "collect_events" /\ pc = "fetched" /\ target >= 1
  /\ outcome.kind = "returned"
  /\ IF outcome.body = 0
       THEN NextCandidate(events, Len(basic_events))
       ELSE NextCandidate(Append(events, [detail_url |-> basic_events[target],
                                          starts_at |-> outcome.body]),
                          Len(basic_events))
  /\ UNCHANGED << config, current_delay, ncalls, last_response, delay_before, outcome,
                  basic_events, iolog >>
  /\ UNCHANGED parsing

\* the wait of the 429 branch of collect_events
CollectWaitSeconds(retry_after, d, base, cap) ==
  LET wait_seconds == IF retry_after.kind = "seconds" THEN retry_after.ms ELSE d
  IN  Min(Max(wait_seconds, base), cap)

\* collect_events, except requests.HTTPError with status 429: the delay is
\* raised, the loop sleeps and fetches the same detail page again
CollectDetailRateLimited ==
  /\ op = "collect_events" /\ pc = "fetched" /\ target >= 1
  /\ outcome.kind = "raised" /\ outcome.exc = "HTTPError"
  /\ last_response.status = 429
  /\ LET d1 == IncreaseDelayAfter429(current_delay, request_delay,
                                     adaptive_backoff_factor, max_request_delay)
         retry_after == ParseRetryAfterSeconds(last_response.hint)
     IN  /\ current_delay' = d1
         /\ IF retry_after.kind = "raise"
              THEN /\ result' = [op |-> "collect_events", kind |-> "raised",
                                 exc |-> retry_after.exc, target |-> target, events |-> << >>]
                   /\ op' = "idle" /\ pc' = "idle"
                   /\ UNCHANGED << attempt_number, requests_made, refetch, last_io >>
              ELSE /\ last_io' = SleepOp("collect",
                         CollectWaitSeconds(retry_after, d1, request_delay, max_request_delay))
                   /\ pc' = "attempt" /\ attempt_number' = 1 /\ requests_made' = 0
                   /\ refetch' = TRUE
                   /\ UNCHANGED << op, result >>
  /\ UNCHANGED << config, ncalls, target, last_response, delay_before, outcome,
                  basic_events, events, before_get >>
  /\ UNCHANGED parsing

\* collect_events, the two skipping except branches: an HTTPError other than
\* 429, another RequestException, or a ValueError
CollectDetailSkipped ==
  /\ op = "collect_events" /\ pc = "fetched" /\ target >= 1
  /\ outcome.kind = "raised"
  /\ \/ outcome.exc = "HTTPError" /\ last_response.status /= 429
     \/ outcome.exc \in {"Timeout", "ConnectionError", "ValueError"}
  /\ NextCandidate(events, Len(basic_events))
  /\ UNCHANGED << config, current_delay, ncalls, last_response, delay_before, outcome,
                  basic_events, iolog >>
  /\ UNCHANGED parsing

\* collect_events: an exception that no except branch names leaves the call
CollectDetailAborts ==
  /\ op = "collect_events" /\ pc = "fetched" /\ target >= 1
  /\ outcome.kind = "raised"
  /\ outcome.exc \notin {"HTTPError", "Timeout", "ConnectionError", "ValueError"}
  /\ result' = [op |-> "collect_events", kind |-> "raised", exc |-> outcome.exc,
                target |-> target, events |-> << >>]
  /\ op' = "idle" /\ pc' = "idle"
  /\ UNCHANGED << config, current_delay, ncalls, target, attempt_number, requests_made,
                  last_response, delay_before, outcome, collected, iolog >>
  /\ UNCHANGED parsing

Next ==
  \/ CallFetchText
  \/ CallCollectEvents
  \/ Attempt
  \/ FetchTextEnds
  \/ CollectIndexFails
  \/ CollectIndexParsed
  \/ CollectDetailParsed
  \/ CollectDetailRateLimited
  \/ CollectDetailSkipped
  \/ CollectDetailAborts

Spec == Init /\ [][Next]_vars

\* a call in progress keeps running: the program is sequential and every step
\* (a request with its timeouts, a sleep, a parse) ends
Running ==
  \/ Attempt
  \/ FetchTextEnds
  \/ CollectIndexFails
  \/ CollectIndexParsed
  \/ CollectDetailParsed
  \/ CollectDetailRateLimited
  \/ CollectDetailSkipped
  \/ CollectDetailAborts

FairSpec == Init /\ [][Next]_vars /\ WF_vars(Running)

-----------------------------------------------------------------------------
(* The event parser: parse_events and parse_detail as functions of the markup *)

\* A string is a sequence of pieces; a piece is never split by a test, so
\* `needle in text` is: the pieces of needle occur in a row in text.
RECURSIVE StartsWith(_, _)
StartsWith(text, needle) ==
  IF needle = << >> THEN TRUE
  ELSE IF text = << >> THEN FALSE
  ELSE text[1] = needle[1] /\ StartsWith(Tail(text), Tail(needle))

RECURSIVE Contains(_, _)
Contains(text, needle) ==
  IF StartsWith(text, needle) THEN TRUE
  ELSE IF text = << >> THEN FALSE
  ELSE Contains(Tail(text), needle)

(* parse_events *)

SiteName == << "karolakvido.cz" >>
EventPath == << "/", "akce_karol_a_kvido", "/" >>
AnniversarySlug == << "karol-a-kvido-slavi" >>
BaseUrl == << "https://", "karolakvido.cz", "/", "kalendar-koncertu", "/" >>

\* urljoin(base_url, href) for an absolute href and for a href that starts with "/"
UrlJoin(base, href) ==
  IF href /= << >> /\ href[1] = "https://" THEN href
  ELSE SubSeq(base, 1, 2) \o href

\* the host of an absolute URL: the pieces between the scheme and the first "/"
RECURSIVE UpToSlash(_)
UpToSlash(text) ==
  IF text = << >> \/ text[1] = "/" THEN << >> ELSE << text[1] >> \o UpToSlash(Tail(text))

HostOf(url) == UpToSlash(Tail(url))

\* the links of one h5 heading that parse_events accepts, as candidates
RECURSIVE AcceptedLinks(_, _, _)
AcceptedLinks(links, base, city) ==
  IF links = << >> THEN << >>
  ELSE LET link == links[1]
           full_url == UrlJoin(base, link.href)
           rest == AcceptedLinks(Tail(links), base, city)
       IN  IF link.href = << >> THEN rest
           ELSE IF ~Contains(full_url, SiteName) THEN rest
           ELSE IF ~Contains(full_url, EventPath) /\ ~Contains(full_url, AnniversarySlug) THEN rest
           ELSE IF link.text = "" THEN rest
           ELSE << [title |-> link.text, detail_url |-> full_url, city |-> city] >> \o rest

\* the loop over the h3 and h5 headings in document order
RECURSIVE CandidateLinks(_, _, _)
CandidateLinks(headings, base, current_city) ==
  IF headings = << >> THEN << >>
  ELSE LET heading == headings[1]
       IN  IF heading.tag = "h3"
             THEN CandidateLinks(Tail(headings), base, heading.text)
             ELSE AcceptedLinks(heading.links, base, current_city)
                    \o CandidateLinks(Tail(headings), base, current_city)

\* deduplicated[event["detail_url"]] = event, for one event: a dict keeps the
\* position of the first insertion of a key and the value of the last
PutFirst(d, event) ==
  IF \E i \in 1 .. Len(d) : d[i].detail_url = event.detail_url THEN d ELSE Append(d, event)

Put(d, event) ==
  IF \E i \in 1 .. Len(d) : d[i].detail_url = event.detail_url
    THEN [i \in 1 .. Len(d) |-> IF d[i].detail_url = event.detail_url THEN event ELSE d[i]]
    ELSE Append(d, event)

RECURSIVE Deduplicated(_)
Deduplicated(evs) ==
  IF evs = << >> THEN << >>
  ELSE Put(Deduplicated(SubSeq(evs, 1, Len(evs) - 1)), evs[Len(evs)])

\* KarolAKvidoClient.parse_events
ParseEventsOf(headings, base) == Deduplicated(CandidateLinks(headings, base, ""))

\* Listings handed to parse_events: up to MaxHeadings h3 and h5 headings
MaxHeadings == 3

SeqsUpTo(S, n) == UNION { [1 .. k -> S] : k \in 0 .. n }

Link(href, text) == [href |-> href, text |-> text]

EventA == << "/", "akce_karol_a_kvido", "/", "a", "/" >>
EventB == << "/", "akce_karol_a_kvido", "/", "b", "/" >>

\* links that parse_events skips
Skipped ==
  << Link(<< >>, "A"),
     Link(<< "/", "kontakt", "/" >>, "A"),
     Link(<< "/", "akce_karol_a_kvido" >>, "A"),
     Link(<< "https://", "example.com" >> \o EventA, "A"),
     Link(EventA, "") >>

\* links to other hosts whose URL holds the name of the site
Foreign ==
  << Link(<< "https://", "example.com", "/", "karolakvido.cz" >> \o EventA, "A"),
     Link(<< "https://", "karolakvido.cz", ".example.com" >> \o EventB, "B") >>

H3(text) == [tag |-> "h3", text |-> text, links |-> << >>]
H5(links) == [tag |-> "h5", text |-> "", links |-> links]

Headings ==
  { H3(""), H3("Praha"), H3("Brno"),
    H5(<< Link(EventA, "A") >>),
    H5(<< Link(<< "https://", "karolakvido.cz" >> \o EventA, "B") >>),
    H5(<< Link(EventB, "B"), Link(EventA, "B") >>),
    H5(Skipped \o << Link(<< "/", "karol-a-kvido-slavi", "-10-let", "/" >>, "A") >>),
    H5(Foreign) }

Listings ==
  { [kind |-> "listing", headings |-> hs, base_url |-> BaseUrl] : hs \in SeqsUpTo(Headings, MaxHeadings) }

\* a call of parse_events(html, base_url)
ParseEvents ==
  /\ page.kind = "listing" /\ parsed.kind = "none"
  /\ parsed' = [kind |-> "candidates", events |-> ParseEventsOf(page.headings, page.base_url)]
  /\ UNCHANGED page

-----------------------------------------------------------------------------
(* Text of a detail page.  A str is the sequence of its characters; a letter
   with a diacritic is written as the letter and a mark: ' acute, ^ caron,
   * ring, : diaeresis, ~ circumflex. *)

UpperCase == << "A", "B", "C", "D", "E", "F", "G", "H", "I", "J", "K", "L", "M", "N", "O", "P",
                "Q", "R", "S", "T", "U", "V", "W", "X", "Y", "Z",
                "A'", "C^", "D^", "E'", "E^", "I'", "N^", "O'", "R^", "S^", "T^", "U'", "U*", "Y'", "Z^" >>
LowerCase == << "a", "b", "c", "d", "e", "f", "g", "h", "i", "j", "k", "l", "m", "n", "o", "p",
                "q", "r", "s", "t", "u", "v", "w", "x", "y", "z",
                "a'", "c^", "d^", "e'", "e^", "i'", "n^", "o'", "r^", "s^", "t^", "u'", "u*", "y'", "z^" >>

\* str.translate / str.lower, one character at a time
Translate(str, from, to) ==
  [i \in 1 .. Len(str) |->
     IF \E k \in 1 .. Len(from) : from[k] = str[i]
       THEN to[CHOOSE k \in 1 .. Len(from) : from[k] = str[i]]
       ELSE str[i]]

Lower(str) == Translate(str, UpperCase, LowerCase)

\* _strip_diacritics: the table holds lower-case letters only
StripDiacritics(str) ==
  Translate(str,
    << "a'", "a:", "c^", "d^", "e'", "e^", "e:", "i'", "l^", "l'", "n^", "o'", "o~", "o:", "r^", "s^", "t^", "u'",
       "u*", "u:", "y'", "z^" >>,
    << "a", "a", "c", "d", "e", "e", "e", "i", "l", "l", "n", "o", "o", "o", "r", "s", "t", "u",
       "u", "u", "y", "z" >>)

\* str.strip(chars)
RECURSIVE LStrip(_, _)
LStrip(str, chars) ==
  IF str /= << >> /\ str[1] \in chars THEN LStrip(Tail(str), chars) ELSE str

RECURSIVE RStrip(_, _)
RStrip(str, chars) ==
  IF str /= << >> /\ str[Len(str)] \in chars
    THEN RStrip(SubSeq(str, 1, Len(str) - 1), chars) ELSE str

Strip(str, chars) == RStrip(LStrip(str, chars), chars)

\* sep.join(parts)
RECURSIVE Join(_, _)
Join(parts, sep) ==
  IF parts = << >> THEN << >>
  ELSE IF Len(parts) = 1 THEN parts[1]
  ELSE parts[1] \o sep \o Join(Tail(parts), sep)

\* str(n) and the two-digit form of n
DigitChars == << "0", "1", "2", "3", "4", "5", "6", "7", "8", "9" >>

RECURSIVE Decimal(_)
Decimal(n) ==
  IF n < 10 THEN << DigitChars[n + 1] >> ELSE Decimal(n \div 10) \o << DigitChars[(n % 10) + 1] >>

TwoDigits(n) == << DigitChars[(n \div 10) + 1], DigitChars[(n % 10) + 1] >>

\* _MONTHS
Months ==
  << << "l", "e", "d", "n", "a" >>,
     << "u", "n", "o", "r", "a" >>,
     << "b", "r", "e", "z", "n", "a" >>,
     << "d", "u", "b", "n", "a" >>,
     << "k", "v", "e", "t", "n", "a" >>,
     << "c", "e", "r", "v", "n", "a" >>,
     << "c", "e", "r", "v", "e", "n", "c", "e" >>,
     << "s", "r", "p", "n", "a" >>,
     << "z", "a", "r", "i" >>,
     << "r", "i", "j", "n", "a" >>,
     << "l", "i", "s", "t", "o", "p", "a", "d", "u" >>,
     << "p", "r", "o", "s", "i", "n", "c", "e" >> >>

\* datetime(year, month, day, hour, minute): the value, or NoDate for ValueError
NoDate == [year |-> 0, month |-> 0, day |-> 0, hour |-> 0, minute |-> 0]

IsLeap(year) == (year % 4 = 0 /\ year % 100 /= 0) \/ year % 400 = 0

DaysInMonth(year, month) ==
  IF month = 2 THEN (IF IsLeap(year) THEN 29 ELSE 28)
  ELSE IF month \in {4, 6, 9, 11} THEN 30 ELSE 31

Datetime(year, month, day, hour, minute) ==
  IF /\ year \in 1 .. 9999 /\ month \in 1 .. 12
     /\ day >= 1 /\ day <= DaysInMonth(year, month)
     /\ hour \in 0 .. 23 /\ minute \in 0 .. 59
    THEN [year |-> year, month |-> month, day |-> day, hour |-> hour, minute |-> minute]
    ELSE NoDate

\* _build_datetime, with the month as it stands in the text
BuildDatetimeAnyCase(year, month, day, hour, minute) ==
  LET month_key == StripDiacritics(Lower(month))
  IN  IF \E k \in 1 .. 12 : Months[k] = month_key
        THEN Datetime(year, CHOOSE k \in 1 .. 12 : Months[k] = month_key, day, hour, minute)
        ELSE NoDate

BuildDatetime(year, month, day, hour, minute) ==
  LET month_key == Lower(StripDiacritics(month))
  IN  IF \E k \in 1 .. 12 : Months[k] = month_key
        THEN Datetime(year, CHOOSE k \in 1 .. 12 : Months[k] = month_key, day, hour, minute)
        ELSE NoDate

-----------------------------------------------------------------------------
(* Phrases.  A text is a sequence of phrases, joined by single spaces:
     word     w                                   (no digit in w)
     named    D. month[ YYYY][, v H[:MM] hodin][ w]
     numeric  D.MM.YYYY[ H:MM]
     year     YYYY
   A named phrase without an hour ends in a word, so no match of the date
   patterns reaches over the end of a phrase. *)

None == 0 - 1

Word(w) ==
  [k |-> "word", day |-> 0, month |-> << >>, mon |-> 0, year |-> 0, hour |-> None,
   minute |-> None, w |-> w]
Named(day, month, year, hour, minute, w) ==
  [k |-> "named", day |-> day, month |-> month, mon |-> 0, year |-> year, hour |-> hour,
   minute |-> minute, w |-> w]
Numeric(day, mon, year, hour, minute) ==
  [k |-> "numeric", day |-> day, month |-> << >>, mon |-> mon, year |-> year, hour |-> hour,
   minute |-> minute, w |-> << >>]
Year(year) ==
  [k |-> "year", day |-> 0, month |-> << >>, mon |-> 0, year |-> year, hour |-> None,
   minute |-> None, w |-> << >>]

\* the characters of a named phrase before its hour
NamedHead(ph) ==
  Decimal(ph.day) \o << ".", " " >> \o ph.month
    \o (IF ph.year > 0 THEN << " " >> \o Decimal(ph.year) ELSE << >>)
    \o << ",", " ", "v", " " >>

\* the characters of a phrase
Render(ph) ==
  IF ph.k = "word" THEN ph.w
  ELSE IF ph.k = "year" THEN Decimal(ph.year)
  ELSE IF ph.k = "numeric"
    THEN Decimal(ph.day) \o << "." >> \o TwoDigits(ph.mon) \o << "." >> \o Decimal(ph.year)
           \o (IF ph.hour >= 0
                 THEN << " " >> \o Decimal(ph.hour) \o << ":" >> \o TwoDigits(ph.minute)
                 ELSE << >>)
  ELSE (IF ph.hour >= 0
          THEN NamedHead(ph) \o Decimal(ph.hour)
                 \o (IF ph.minute >= 0 THEN << ":" >> \o TwoDigits(ph.minute) ELSE << >>)
                 \o << " ", "h", "o", "d", "i", "n" >>
          ELSE SubSeq(NamedHead(ph), 1, Len(NamedHead(ph)) - 4))
         \o (IF ph.w /= << >> THEN << " " >> \o ph.w ELSE << >>)

\* the characters of a text: get_text(" ", strip=True), _normalize_whitespace
RECURSIVE RenderText(_)
RenderText(text) ==
  IF text = << >> THEN << >>
  ELSE IF Len(text) = 1 THEN Render(text[1])
  ELSE Render(text[1]) \o << " " >> \o RenderText(Tail(text))

\* `needle in text.lower()` for a needle of lower-case letters
TextContainsLower(text, needle) == Contains(Lower(RenderText(text)), needle)

\* a match of a date pattern: the named groups, minute None when the group is absent
NoMatch == [year |-> 0, month |-> << >>, day |-> 0, hour |-> None, minute |-> None]

\* _DATETIME_RE on one phrase
DatetimeRe(ph) ==
  IF ph.k = "named" /\ ph.year > 0 /\ ph.hour >= 0
    THEN [year |-> ph.year, month |-> ph.month, day |-> ph.day, hour |-> ph.hour,
          minute |-> ph.minute]
    ELSE NoMatch

\* _DATETIME_WITHOUT_YEAR_RE on one phrase: with a year behind the month, the
\* first two digits of the year are taken for the hour
DatetimeWithoutYearRe(ph) ==
  IF ph.k = "named" /\ ph.year > 0
    THEN [year |-> 0, month |-> ph.month, day |-> ph.day, hour |-> ph.year \div 100,
          minute |-> None]
  ELSE IF ph.k = "named" /\ ph.hour >= 0
    THEN [year |-> 0, month |-> ph.month, day |-> ph.day, hour |-> ph.hour,
          minute |-> ph.minute]
    ELSE NoMatch

\* _YEAR_RE.search(full_text): the first year token 2000..2099, or 0
RECURSIVE YearRe(_)
YearRe(text) ==
  IF text = << >> THEN 0
  ELSE IF text[1].k \in {"named", "numeric", "year"} /\ text[1].year \in 2000 .. 2099
    THEN text[1].year
    ELSE YearRe(Tail(text))

\* minute=match.group("minute") or "00"
MinuteAsMatched(minute) == minute

MinuteOr00(minute) == IF minute = None THEN 0 ELSE minute

\* _find_valid_datetime_with_year
RECURSIVE FindValidDatetimeWithYear(_)
FindValidDatetimeWithYear(text) ==
  IF text = << >> THEN NoDate
  ELSE LET match == DatetimeRe(text[1])
           dt == IF match = NoMatch THEN NoDate
                 ELSE BuildDatetime(match.year, match.month, match.day, match.hour,
                                    MinuteOr00(match.minute))
       IN  IF dt /= NoDate THEN dt ELSE FindValidDatetimeWithYear(Tail(text))

RECURSIVE FirstValidWithoutYear(_, _)
FirstValidWithoutYear(text, year) ==
  IF text = << >> THEN NoDate
  ELSE LET match == DatetimeWithoutYearRe(text[1])
           dt == IF match = NoMatch THEN NoDate
                 ELSE BuildDatetime(year, match.month, match.day, match.hour,
                                    MinuteOr00(match.minute))
       IN  IF dt /= NoDate THEN dt ELSE FirstValidWithoutYear(Tail(text), year)

\* _find_valid_datetime_without_year
FindValidDatetimeWithoutYearInBlock(text, full_text) ==
  IF YearRe(text) = 0 THEN NoDate ELSE FirstValidWithoutYear(text, YearRe(text))

FindValidDatetimeWithoutYear(text, full_text) ==
  IF YearRe(full_text) = 0 THEN NoDate ELSE FirstValidWithoutYear(text, YearRe(full_text))

\* _TIME_RE on one phrase: the first match, where it starts and how long it is
NoTime == [hour |-> None, minute |-> None, at |-> 0, len |-> 0]

TimeRe(ph) ==
  IF ph.k = "numeric"
    THEN [hour |-> ph.day, minute |-> ph.mon, at |-> 0, len |-> Len(Decimal(ph.day)) + 3]
  ELSE IF ph.k = "named" /\ ph.hour >= 0 /\ ph.minute >= 0
    THEN [hour |-> ph.hour, minute |-> ph.minute, at |-> Len(NamedHead(ph)),
          len |-> Len(Decimal(ph.hour)) + 3]
    ELSE NoTime

WindowLen == 48

\* _TIME_RE.search(window), for the part of the window from phrase j on
RECURSIVE TimeAfter(_, _, _)
TimeAfter(text, j, offset) ==
  IF j > Len(text) \/ offset >= WindowLen THEN NoTime
  ELSE IF TimeRe(text[j]) /= NoTime /\ offset + TimeRe(text[j]).at + TimeRe(text[j]).len <= WindowLen
    THEN TimeRe(text[j])
    ELSE TimeAfter(text, j + 1, offset + Len(Render(text[j])) + 1)

\* the window behind the numeric date of phrase i
WindowTime(text, i) ==
  IF text[i].hour >= 0
    THEN [hour |-> text[i].hour, minute |-> text[i].minute, at |-> 1,
          len |-> Len(Decimal(text[i].hour)) + 3]
    ELSE TimeAfter(text, i + 1, 1)

\* _find_valid_numeric_date, from phrase i on
RECURSIVE FindValidNumericDateFrom(_, _)
FindValidNumericDateFrom(full_text, i) ==
  IF i > Len(full_text) THEN NoDate
  ELSE LET ph == full_text[i]
           time_match == WindowTime(full_text, i)
           dt == IF ph.k = "numeric" /\ ph.year \in 2000 .. 2099
                   THEN IF time_match /= NoTime
                          THEN Datetime(ph.year, ph.mon, ph.day, time_match.hour, time_match.minute)
                          ELSE Datetime(ph.year, ph.mon, ph.day, 0, 0)
                   ELSE NoDate
       IN  IF dt /= NoDate THEN dt ELSE FindValidNumericDateFrom(full_text, i + 1)

FindValidNumericDate(full_text) == FindValidNumericDateFrom(full_text, 1)

-----------------------------------------------------------------------------
(* The parsed document: the nodes in document order, each with its depth.
   A tag has no text of its own; the text is in the text nodes below it. *)

TagNode(name, depth) == [kind |-> "tag", name |-> name, depth |-> depth, text |-> << >>]
TextNode(text, depth) == [kind |-> "text", name |-> "", depth |-> depth, text |-> text]

\* the last node of the subtree of node i
RECURSIVE EndOf(_, _, _)
EndOf(nodes, i, j) ==
  IF j < Len(nodes) /\ nodes[j + 1].depth > nodes[i].depth THEN EndOf(nodes, i, j + 1) ELSE j

\* a text node directly below a script or style tag: get_text leaves it out
InScript(nodes, j) ==
  /\ nodes[j].kind = "text"
  /\ \E k \in 1 .. j - 1 :
       /\ nodes[k].depth = nodes[j].depth - 1
       /\ \A m \in k + 1 .. j - 1 : nodes[m].depth >= nodes[j].depth
       /\ nodes[k].name \in {"script", "style"}

\* get_text(" ", strip=True) of the nodes i .. j
RECURSIVE TextOf(_, _, _)
TextOf(nodes, i, j) ==
  IF i > j THEN << >>
  ELSE (IF InScript(nodes, i) THEN << >> ELSE nodes[i].text) \o TextOf(nodes, i + 1, j)

\* the strings directly below tag i, whatever their kind
RECURSIVE OwnStrings(_, _, _)
OwnStrings(nodes, i, j) ==
  IF j > Len(nodes) \/ nodes[j].depth <= nodes[i].depth THEN << >>
  ELSE (IF nodes[j].kind = "text" /\ nodes[j].depth = nodes[i].depth + 1
          THEN nodes[j].text ELSE << >>)
       \o OwnStrings(nodes, i, j + 1)

\* tag.get_text(" ", strip=True): a script or style tag asked for its own text
\* gives its source, every other tag gives the text below it without the
\* sources of the script and style tags it holds
GetText(nodes, i) ==
  IF nodes[i].kind = "tag" /\ nodes[i].name \in {"script", "style"}
    THEN OwnStrings(nodes, i, i + 1)
    ELSE TextOf(nodes, i, EndOf(nodes, i, i))

\* node.next_siblings, searched from node j on, for a node of depth d
RECURSIVE NextSiblings(_, _, _)
NextSiblings(nodes, j, d) ==
  IF j > Len(nodes) \/ nodes[j].depth < d THEN << >>
  ELSE << j >> \o NextSiblings(nodes, EndOf(nodes, j, j) + 1, d)

IsHeading(node) == node.kind = "tag" /\ node.name \in {"h2", "h3"}

\* the siblings behind heading i up to the next h2 or h3
RECURSIVE UpToHeading(_, _)
UpToHeading(nodes, siblings) ==
  IF siblings = << >> \/ IsHeading(nodes[siblings[1]]) THEN << >>
  ELSE << siblings[1] >> \o UpToHeading(nodes, Tail(siblings))

Block(nodes, i) ==
  UpToHeading(nodes, NextSiblings(nodes, EndOf(nodes, i, i) + 1, nodes[i].depth))

\* the h2 and h3 tags whose text holds the needle, in document order
HeadingsWith(nodes, needle) ==
  SelectSeq([i \in 1 .. Len(nodes) |-> i],
            LAMBDA i : IsHeading(nodes[i]) /\ TextContainsLower(GetText(nodes, i), needle))

-----------------------------------------------------------------------------
(* parse_detail *)

\* _extract_title: the text of the first h1, or << >> for None
ExtractTitle(nodes) ==
  IF \E i \in 1 .. Len(nodes) : nodes[i].kind = "tag" /\ nodes[i].name = "h1"
    THEN RenderText(GetText(nodes,
           CHOOSE i \in 1 .. Len(nodes) :
             /\ nodes[i].kind = "tag" /\ nodes[i].name = "h1"
             /\ \A j \in 1 .. i - 1 : ~(nodes[j].kind = "tag" /\ nodes[j].name = "h1")))
    ELSE << >>

\* search_text of one 'kdy' heading: the texts of the siblings of its block
RECURSIVE SearchText(_, _)
SearchText(nodes, siblings) ==
  IF siblings = << >> THEN << >>
  ELSE GetText(nodes, siblings[1]) \o SearchText(nodes, Tail(siblings))

\* the loop of _extract_datetime over the 'kdy' headings
RECURSIVE WhenFromHeadings(_, _, _)
WhenFromHeadings(nodes, when_headings, full_text) ==
  IF when_headings = << >> THEN NoDate
  ELSE LET siblings == Block(nodes, when_headings[1])
           search_text == SearchText(nodes, siblings)
           when_dt == FindValidDatetimeWithYear(search_text)
           when_dt_without_year == FindValidDatetimeWithoutYear(search_text, full_text)
       IN  IF siblings = << >> THEN WhenFromHeadings(nodes, Tail(when_headings), full_text)
           ELSE IF when_dt /= NoDate THEN when_dt
           ELSE IF when_dt_without_year /= NoDate THEN when_dt_without_year
           ELSE WhenFromHeadings(nodes, Tail(when_headings), full_text)

\* _extract_datetime: NoDate stands for ValueError("Nelze najit datum a cas akce.")
ExtractDatetimeNumericFirst(nodes) ==
  LET full_text == TextOf(nodes, 1, Len(nodes))
      when_dt == WhenFromHeadings(nodes, HeadingsWith(nodes, << "k", "d", "y" >>), full_text)
  IN  IF when_dt /= NoDate THEN when_dt
      ELSE IF FindValidNumericDate(full_text) /= NoDate THEN FindValidNumericDate(full_text)
      ELSE FindValidDatetimeWithYear(full_text)

ExtractDatetime(nodes) ==
  LET full_text == TextOf(nodes, 1, Len(nodes))
      when_dt == WhenFromHeadings(nodes, HeadingsWith(nodes, << "k", "d", "y" >>), full_text)
      fallback_dt == FindValidDatetimeWithYear(full_text)
  IN  IF when_dt /= NoDate THEN when_dt
      ELSE IF fallback_dt /= NoDate THEN fallback_dt
      ELSE FindValidNumericDate(full_text)

\* location_parts: the non-empty texts of the siblings behind the 'kde' heading
RECURSIVE LocationParts(_, _)
LocationParts(nodes, siblings) ==
  IF siblings = << >> THEN << >>
  ELSE LET text == RenderText(GetText(nodes, siblings[1]))
       IN  (IF text /= << >> THEN << text >> ELSE << >>) \o LocationParts(nodes, Tail(siblings))

Neuvedeno == << "N", "e", "u", "v", "e", "d", "e", "n", "o" >>

\* _extract_location
ExtractLocationUnstripped(nodes, city) ==
  LET where_headings == HeadingsWith(nodes, << "k", "d", "e" >>)
      location == IF where_headings = << >> THEN << >>
                  ELSE Join(LocationParts(nodes, Block(nodes, where_headings[1])), << ",", " " >>)
  IN  IF where_headings /= << >> THEN location
      ELSE IF city /= << >> THEN city
      ELSE Neuvedeno

ExtractLocation(nodes, city) ==
  LET where_headings == HeadingsWith(nodes, << "k", "d", "e" >>)
      location == IF where_headings = << >> THEN << >>
                  ELSE Strip(Join(LocationParts(nodes, Block(nodes, where_headings[1])),
                                  << ",", " " >>),
                             {",", " "})
  IN  IF location /= << >> THEN location
      ELSE IF city /= << >> THEN city
      ELSE Neuvedeno

\* the labels that _extract_information drops and the phrase that ends it
Informace == << "i", "n", "f", "o", "r", "m", "a", "c", "e" >>
Vstupenky == << "v", "s", "t", "u", "p", "e", "n", "k", "y" >>
AllEvents == << "v", "s^", "e", "c", "h", "n", "y", " ", "a", "k", "c", "e", " ", "k", "a", "r", "o", "l", " ", "a", " ", "k", "v", "i'", "d", "o" >>

\* the loop of _extract_information over info_heading.next_elements, from node j on
RECURSIVE InformationChunksPastFooter(_, _, _)
InformationChunksPastFooter(nodes, info_heading, j) ==
  IF j > Len(nodes) THEN << >>
  ELSE LET node == nodes[j]
           text == RenderText(node.text)
           more == InformationChunksPastFooter(nodes, info_heading, j + 1)
       IN  IF /\ node.kind = "text" /\ j <= EndOf(nodes, info_heading, info_heading)
              /\ node.depth = nodes[info_heading].depth + 1 THEN more
           ELSE IF IsHeading(node) THEN << >>
           ELSE IF node.kind = "tag" /\ node.name \in {"script", "style"} THEN more
           ELSE IF node.kind = "tag" \/ text = << >> THEN more
           ELSE IF Lower(Strip(text, {" ", ":"})) \in {Informace, Vstupenky} THEN more
           ELSE IF Contains(Lower(text), AllEvents) THEN more
           ELSE << text >> \o more

\* the loop of _extract_information over info_heading.next_elements, from node j on
RECURSIVE InformationChunks(_, _, _)
InformationChunks(nodes, info_heading, j) ==
  IF j > Len(nodes) THEN << >>
  ELSE LET node == nodes[j]
           text == RenderText(node.text)
           more == InformationChunks(nodes, info_heading, j + 1)
       IN  IF /\ node.kind = "text" /\ j <= EndOf(nodes, info_heading, info_heading)
              /\ node.depth = nodes[info_heading].depth + 1 THEN more
           ELSE IF IsHeading(node) THEN << >>
           ELSE IF node.kind = "tag" /\ node.name \in {"script", "style"} THEN more
           ELSE IF node.kind = "tag" \/ text = << >> THEN more
           ELSE IF Lower(Strip(text, {" ", ":"})) \in {Informace, Vstupenky} THEN more
           ELSE IF Contains(Lower(text), AllEvents) THEN << >>
           ELSE << text >> \o more

\* _extract_information
ExtractInformation(nodes) ==
  LET info_headings == HeadingsWith(nodes, Informace)
  IN  IF info_headings = << >> THEN << >>
      ELSE Strip(Join(InformationChunks(nodes, info_headings[1], info_headings[1] + 1), << "\n" >>),
                 {" ", "\n", "\t"})

\* KarolAKvidoClient.parse_detail: the Event, or the ValueError of _extract_datetime
ParseDetailOf(nodes, detail_url, fallback_title, city) ==
  LET title == IF ExtractTitle(nodes) /= << >> THEN ExtractTitle(nodes) ELSE fallback_title
      starts_at == ExtractDatetime(nodes)
  IN  IF starts_at = NoDate
        THEN [kind |-> "raised", exc |-> "ValueError"]
        ELSE [kind |-> "event", title |-> title, starts_at |-> starts_at,
              location |-> ExtractLocation(nodes, city), detail_url |-> detail_url,
              information_text |-> ExtractInformation(nodes), city |-> city]

\* a call of parse_detail(html, detail_url, fallback_title, city)
ParseDetail ==
  /\ page.kind = "detail" /\ parsed.kind = "none"
  /\ parsed' = ParseDetailOf(page.nodes, page.detail_url, page.fallback_title, page.city)
  /\ UNCHANGED page

-----------------------------------------------------------------------------
(* Detail pages handed to parse_detail *)

Unora == << "u'", "n", "o", "r", "a" >>
Brezna == << "b", "r^", "e", "z", "n", "a" >>
Kvetna == << "k", "v", "e^", "t", "n", "a" >>
Prosince == << "p", "r", "o", "s", "i", "n", "c", "e" >>
Brezen == << "b", "r", "e", "z", "e", "n" >>
UnoraCapital == << "U'", "n", "o", "r", "a" >>
Praha == << "P", "r", "a", "h", "a" >>
Svitavy == << "S", "v", "i", "t", "a", "v", "y" >>
PiratskyPoklad == << "P", "i", "r", "a'", "t", "s", "k", "y'", " ", "p", "o", "k", "l", "a", "d" >>
KdyLabel == << "K", "d", "y", ":" >>
KdeLabel == << "K", "d", "e", ":" >>
KdyAKdeLabel == << "K", "d", "y", " ", "a", " ", "k", "d", "e", ":" >>
InformaceLabel == << "I", "n", "f", "o", "r", "m", "a", "c", "e", ":" >>
VstupenkyLabel == << "V", "S", "T", "U", "P", "E", "N", "K", "Y" >>
AllEventsLabel == << "V", "s^", "e", "c", "h", "n", "y", " ", "a", "k", "c", "e", " ", "K", "a", "r", "o", "l", " ", "a", " ", "K", "v", "i'", "d", "o" >>
Brzy == << "b", "r", "z", "y" >>
LidoveDivadlo == << "S", "v", "i", "t", "a", "v", "y", ",", " ", "L", "i", "d", "o", "v", "e'", " ", "d", "i", "v", "a", "d", "l", "o" >>
Comma == << "," >>
PrahaComma == << "P", "r", "a", "h", "a", "," >>
Predstaveni == << "P", "r^", "e", "d", "s", "t", "a", "v", "e", "n", "i'", " ", "p", "r", "o", " ", "d", "e^", "t", "i" >>
Vstup == << "V", "s", "t", "u", "p", " ", "o", "d", " ", "t", "r^", "i'", " ", "l", "e", "t" >>
Analytics == << "t", "r", "a", "c", "k", "(", ")" >>

\* <name>text</name>, and a list of nodes put below a new tag
El(name, text) == << TagNode(name, 0), TextNode(text, 1) >>
Deeper(nodes) == [i \in 1 .. Len(nodes) |-> [nodes[i] EXCEPT !.depth = @ + 1]]
Wrap(name, nodes) == << TagNode(name, 0) >> \o Deeper(nodes)

RECURSIVE Flatten(_)
Flatten(seqs) == IF seqs = << >> THEN << >> ELSE seqs[1] \o Flatten(Tail(seqs))

DetailPage(nodes, city) ==
  [kind |-> "detail", nodes |-> nodes, detail_url |-> << "https://", "karolakvido.cz" >> \o EventA,
   fallback_title |-> PiratskyPoklad, city |-> city]

KdyHeading == El("h2", << Word(KdyLabel) >>)
KdeSection == El("h2", << Word(KdeLabel) >>) \o El("p", << Word(LidoveDivadlo) >>)
Related == El("a", << Word(PiratskyPoklad), Named(23, Prosince, 2026, 14, None, Praha) >>)

Titles ==
  { << >>,
    El("h1", << Word(PiratskyPoklad) >>),
    El("h1", << Word(PiratskyPoklad), Named(1, Brezna, 0, None, None, Svitavy) >>),
    El("h1", << Word(PiratskyPoklad), Named(1, Brezna, 2025, None, None, Svitavy) >>),
    El("h1", << Word(PiratskyPoklad), Named(23, Prosince, 2025, 14, None, Praha) >>) }

\* what stands behind a 'kdy' heading
BlockTexts ==
  { << Named(14, Unora, 2026, 15, 0, << >>) >>,
    << Named(14, Unora, 2026, 15, None, << >>) >>,
    << Named(14, Unora, 0, 15, 0, << >>) >>,
    << Named(14, Brezen, 2026, 15, 0, << >>), Named(1, Brezna, 2026, 16, 0, << >>) >>,
    << Named(14, UnoraCapital, 2026, 15, 0, << >>) >>,
    << Named(31, Unora, 2026, 15, 0, << >>) >>,
    << Named(14, Unora, 2026, None, None, Svitavy) >>,
    << Named(14, Unora, 2026, 25, 0, << >>) >>,
    << Named(5, Kvetna, 0, 10, None, << >>), Named(6, Kvetna, 2026, 11, 0, << >>) >>,
    << Numeric(14, 2, 2026, 15, 30) >>,
    << Word(Brzy) >> }

\* a script behind the heading whose source holds a date
DatedScript == El("script", << Named(14, Unora, 2026, 15, 0, << >>) >>)

FirstBlocks ==
  { << >>, KdyHeading, KdyHeading \o KdeSection, KdyHeading \o DatedScript }
    \cup { KdyHeading \o El("p", t) : t \in BlockTexts }

SecondBlocks ==
  { << >>,
    KdyHeading \o El("p", << Named(20, Kvetna, 2027, 18, 30, << >>) >>),
    KdyHeading \o El("p", << Named(20, Kvetna, 0, 18, None, << >>) >>) }

CascadePages ==
  { DetailPage(t \o b1 \o b2 \o r, Praha) :
      t \in Titles, b1 \in FirstBlocks, b2 \in SecondBlocks,
      r \in { << >>, El("h3", << Word(AllEventsLabel) >>) \o Related } }

\* pages whose date, if any, stands outside the 'kdy' blocks
MaxRelated == 2

RelatedItems ==
  { Related,
    El("p", << Numeric(24, 12, 2026, None, None) >>),
    El("p", << Numeric(15, 3, 2026, 10, 0) >>),
    El("p", << Numeric(14, 13, 2026, 10, 0) >>),
    El("a", << Named(23, Prosince, 1999, 14, None, Praha) >>),
    El("p", << Year(1999), Word(Brzy) >>) }

FallbackPages ==
  { DetailPage(t \o b \o El("h3", << Word(AllEventsLabel) >>) \o Flatten(r), << >>) :
      t \in { << >> },
      b \in { << >>, KdyHeading, KdyHeading \o El("p", << Named(14, Unora, 0, 15, 0, << >>) >>) },
      r \in SeqsUpTo(RelatedItems, MaxRelated) }

Dated == KdyHeading \o El("p", << Named(14, Unora, 2026, 15, 0, << >>) >>)

\* what stands behind a 'kde' heading
WhereBlocks ==
  { << >>,
    El("h2", << Word(KdeLabel) >>),
    KdeSection,
    El("h2", << Word(KdeLabel) >>) \o << TextNode(<< Word(Svitavy) >>, 0) >>
      \o El("p", << Word(LidoveDivadlo) >>),
    El("h2", << Word(KdeLabel) >>) \o << TextNode(<< >>, 0), TagNode("p", 0) >>,
    El("h2", << Word(KdeLabel) >>) \o El("p", << Word(Comma) >>),
    El("h2", << Word(KdeLabel) >>) \o El("p", << Word(Svitavy) >>) \o El("script", << Word(Analytics) >>),
    El("h2", << Word(KdeLabel) >>) \o El("p", << Word(PrahaComma) >>) \o El("p", << Word(Comma) >>),
    El("h2", << Word(KdeLabel) >>) \o Wrap("div", El("p", << Word(Svitavy) >>) \o El("p", << Word(Brzy) >>)),
    Wrap("div", El("h3", << Word(KdeLabel) >>) \o El("p", << Word(Svitavy) >>))
      \o El("p", << Word(Brzy) >>) }

LocationPages ==
  { DetailPage(Dated \o w \o r, city) :
      w \in WhereBlocks, r \in { << >>, El("h2", << Word(InformaceLabel) >>) \o El("p", << Word(Vstup) >>) },
      city \in { << >>, Praha } }
    \cup { DetailPage(El("h2", << Word(KdyAKdeLabel) >>)
                       \o El("p", << Named(14, Unora, 2026, 15, 0, << >>), Word(Svitavy) >>), city) :
             city \in { << >>, Praha } }

\* what stands behind an 'informace' heading: up to MaxChunks pieces and an end
MaxChunks == 2

InfoHeadings ==
  { El("h2", << Word(InformaceLabel) >>),
    Wrap("div", El("h3", << Word(InformaceLabel) >>)),
    << TagNode("h2", 0) >> \o Deeper(El("span", << Word(InformaceLabel) >>)) }

InfoPieces ==
  { El("p", << Word(Predstaveni) >>),
    El("p", << Word(VstupenkyLabel) >>),
    << TextNode(<< Word(InformaceLabel) >>, 0) >>,
    Wrap("div", Wrap("div", El("p", << Word(Vstup) >>))),
    El("script", << Word(Analytics) >>) }

InfoEnds ==
  { << >>,
    El("h3", << Word(AllEventsLabel) >>) \o Related,
    Wrap("div", El("p", << Word(AllEventsLabel) >>) \o Related) }

InformationPages ==
  { DetailPage(Dated \o h \o Flatten(c) \o e, Praha) :
      h \in InfoHeadings, c \in SeqsUpTo(InfoPieces, MaxChunks), e \in InfoEnds }
    \cup { DetailPage(Dated \o Flatten(c), Praha) : c \in SeqsUpTo(InfoPieces, 1) }

DetailPages == CascadePages \cup FallbackPages \cup LocationPages \cup InformationPages

-----------------------------------------------------------------------------
(* The parser specification: one call of a parser on one page *)

client == << request_delay, max_request_delay, adaptive_backoff_factor, wait_before_stop,
             current_delay, op,
             ncalls, pc, target, attempt_number, requests_made, last_response, delay_before,
             outcome, basic_events, events, refetch, result, last_io, before_get >>

ParserInit ==
  /\ ClientInit
  /\ config = << DefaultDelayMs, 16 * DefaultDelayMs, 20, TRUE >>
  /\ parsed = NotParsed
  /\ \/ \E p \in Listings : page = p
     \/ \E p \in DetailPages : page = p

ParserNext ==
  \/ ParseEvents /\ UNCHANGED client
  \/ ParseDetail /\ UNCHANGED client

ParserSpec == ParserInit /\ [][ParserNext]_vars

-----------------------------------------------------------------------------
(* Properties *)

FetchErrors == {"HTTPError", "Timeout", "ConnectionError"}

\* the last response is an HTTP 429 of the running or last fetch_text call
Got429 == last_response.kind = "http" /\ last_response.status = 429

\* C1: a detail page whose fetch ends in a fetch error is skipped: collect_events
\* goes on with the next candidate instead of fetching the same page again, and
\* the call never fails because of a detail page.
C1_FailedDetailIsSkipped ==
  /\ ~refetch
  /\ (result.op = "collect_events" /\ result.kind = "raised") => result.target = 0

\* C2: collect_events always terminates: a call in progress eventually returns
\* or aborts, whatever the server answers.
C2_CollectEventsTerminates == (op = "collect_events") ~> (op = "idle")

\* C3: retryable failures among the first four responses of a fetch_text call
\* never end the call, and a success returns its body after one request per
\* attempt, with no error reaching the caller.
C3_RetriesInvisibleOnSuccess ==
  pc = "fetched" =>
    /\ last_response.kind = "ok" =>
         /\ outcome = [kind |-> "returned", exc |-> "", body |-> last_response.body]
         /\ requests_made = attempt_number
    /\ (outcome.kind = "raised" /\ last_response.kind /= "ok"
          /\ (last_response.kind \in {"timeout", "connerr"}
                \/ last_response.status = 429 \/ last_response.status >= 500))
         => requests_made = StopAfterAttempt

\* C4: a client-error response other than 429 ends the fetch_text call at once
\* with the HTTP error: no retry follows it, and when it answers the first
\* request the call has made exactly one request.
C4_ClientErrorFailsAtOnce ==
  (/\ requests_made >= 1
   /\ last_response.kind = "http"
   /\ last_response.status >= 400 /\ last_response.status < 500
   /\ last_response.status /= 429)
  => /\ pc /= "attempt"
     /\ outcome = [kind |-> "raised", exc |-> "HTTPError", body |-> 0]
     /\ requests_made = attempt_number
     /\ (attempt_number = 1 => requests_made = 1)

C4_Witness ==
  /\ pc = "fetched" /\ last_response.status = 404
  /\ requests_made = 1 /\ outcome.exc = "HTTPError"

\* C5: a fetch_text call makes at most 5 requests, and when the fifth also ends
\* in a retryable failure the call raises the error of that last attempt.
C5_ExhaustionSurfacesLastError ==
  /\ requests_made <= StopAfterAttempt
  /\ (/\ pc = "fetched" /\ requests_made = StopAfterAttempt
      /\ (last_response.kind \in {"timeout", "connerr"}
            \/ (last_response.kind = "http"
                  /\ (last_response.status = 429 \/ last_response.status >= 500))))
     => outcome = [kind |-> "raised", exc |-> ExceptionOf(last_response), body |-> 0]

\* C6: a 429 response received at a positive delay d leaves the delay at
\* min(d * backoff_factor, max_request_delay): one escalation per 429 response.
C6_OneEscalationPer429 ==
  (Got429 /\ delay_before > 0)
  => current_delay = Min((delay_before * adaptive_backoff_factor) \div 10, max_request_delay)

\* the wait of C7 for a retry after attempt n: max(b, min(h, 90 s)) for a 429
\* with a hint of h seconds, else b, with b the backoff 2^(n-1) s within [1 s, 8 s]
ClaimedBackoff(n) == Max(1000, Min(1000 * Pow2(n - 1), 8000))

ClaimedWait(n, resp) ==
  IF resp.kind = "http" /\ resp.status = 429 /\ resp.hint.form = "digits"
    THEN Max(ClaimedBackoff(n), Min(resp.hint.n * 1000, 90000))
    ELSE ClaimedBackoff(n)

\* C7: every wait before a retry, in fetch_text and in the 429 loop
\* of collect_events, is max(b, min(h, 90 s)) with a hint and b without.
C7_WaitIsBackoffOrHint ==
  (last_io.what = "sleep" /\ last_io.by \in {"retry", "collect"})
  => \E n \in 1 .. StopAfterAttempt : last_io.dur = ClaimedWait(n, last_response)

\* What the code does about the waits of C7: inside fetch_text the wait before
\* the retry that follows attempt n is max(b, min(h, 90 s)) after a 429 with a
\* hint of h seconds and b otherwise, so it lies in [b, 90 s]; the 429 loop of
\* collect_events waits min(max(w, request_delay), max_request_delay), w being
\* the hint when there is one and the current delay otherwise.
C7_WaitBeforeRetry ==
  /\ (pc = "attempt" /\ attempt_number > 1)
       => /\ last_io = SleepOp("retry", ClaimedWait(attempt_number - 1, last_response))
          /\ last_io.dur >= ClaimedBackoff(attempt_number - 1)
          /\ last_io.dur <= 90000
  /\ last_io.by = "retry" => (pc = "attempt" /\ attempt_number > 1)
  /\ last_io.by = "collect"
       => last_io.dur =
            Min(Max(IF last_response.hint.form = "digits"
                      THEN last_response.hint.n * 1000 ELSE current_delay,
                    request_delay),
                max_request_delay)

C7_Witness ==
  /\ pc = "attempt" /\ attempt_number = 3
  /\ Got429 /\ last_response.hint.form = "digits" /\ last_response.hint.n = 3
  /\ last_io = SleepOp("retry", 3000)

\* C8: parsing a Retry-After value never raises, so a fetch_text call ends in
\* no error other than a fetch error.
C8_RetryAfterNeverRaises ==
  outcome.kind = "raised" => outcome.exc \in FetchErrors

\* C9: a successful response received at delay d leaves the delay at
\* max(request_delay, 0.9 * d), never below the base, and at the base when d
\* was the base.
C9_SuccessRelaxesDelay ==
  (last_response.kind = "ok" /\ requests_made >= 1)
  => /\ current_delay = Max(request_delay, (delay_before * 9) \div 10)
     /\ current_delay >= request_delay
     /\ (delay_before = request_delay => current_delay = request_delay)

C9_Witness ==
  /\ last_response.kind = "ok" /\ requests_made >= 1
  /\ delay_before = 2000 /\ current_delay = 1800 /\ request_delay = 1000

\* C10, as stated: every HTTP request is directly preceded by a throttle sleep
\* of the current delay.
C10_EveryRequestAfterSleep ==
  requests_made >= 1 => before_get = SleepOp("throttle", delay_before)

\* C10, amended: every HTTP request issued at a positive current delay is
\* directly preceded by a throttle sleep of that delay (the base delay for the
\* first request of a new client); at a delay of 0 no throttle sleep is made.
C10_ThrottleBeforeRequest ==
  /\ requests_made >= 1
       => IF delay_before > 0
            THEN before_get = SleepOp("throttle", delay_before)
            ELSE before_get.by /= "throttle"
  /\ (ncalls = 1 /\ target = 0 /\ requests_made = 1 /\ request_delay > 0)
       => before_get = SleepOp("throttle", request_delay)

C10_Witness ==
  /\ requests_made >= 2 /\ delay_before > request_delay
  /\ before_get = SleepOp("throttle", delay_before)

\* C11: the list collect_events returns is sorted ascending by starts_at.
C11_ResultSortedByStartsAt ==
  (result.op = "collect_events" /\ result.kind = "returned")
  => \A i \in 1 .. Len(result.events) - 1 :
       result.events[i].starts_at <= result.events[i + 1].starts_at

C11_Witness ==
  /\ result.op = "collect_events" /\ result.kind = "returned"
  /\ Len(result.events) = 2
  /\ result.events[1].detail_url = basic_events[2]
  /\ result.events[1].starts_at < result.events[2].starts_at

\* C17: when the fetch of the index page has raised, the next step of
\* collect_events ends the call with that error: no detail page is fetched
\* and no event is returned.
C17_IndexFailureIsFatal ==
  [][(op = "collect_events" /\ pc = "fetched" /\ target = 0 /\ outcome.kind = "raised")
       => /\ op' = "idle" /\ target' = 0
          /\ result' = [op |-> "collect_events", kind |-> "raised", exc |-> outcome.exc,
                        target |-> 0, events |-> << >>]
          /\ events' = << >> /\ basic_events' = << >>
          /\ requests_made' = requests_made]_vars

C17_Witness ==
  /\ result.op = "collect_events" /\ result.kind = "raised" /\ result.target = 0
  /\ result.exc = "HTTPError" /\ requests_made = StopAfterAttempt
  /\ events = << >> /\ basic_events = << >>

\* C20: the throttle delay stays between the base delay and the maximum delay
\* in every state, and starting a call or moving on to another candidate
\* leaves it as it is.
C20_DelayWithinBounds ==
  /\ [](request_delay <= current_delay /\ current_delay <= max_request_delay)
  /\ [][(ncalls' /= ncalls \/ target' /= target) => current_delay' = current_delay]_vars

C20_Witness ==
  /\ ncalls = 2 /\ pc = "attempt" /\ requests_made = 0 /\ target = 0
  /\ max_request_delay > request_delay
  /\ current_delay = max_request_delay

\* The candidates before deduplication and the places of one URL among them
Accepted == CandidateLinks(page.headings, page.base_url, "")
Occurrences(url) == { i \in 1 .. Len(Accepted) : Accepted[i].detail_url = url }
Last(S) == CHOOSE i \in S : \A j \in S : j <= i

\* C12: parse_events returns exactly one candidate per distinct detail_url of
\* the accepted links, and that candidate carries the title and the city of the
\* last accepted link with that URL in document order.
C12_OnePerUrlLastWins ==
  parsed.kind = "candidates"
  => /\ \A i, j \in 1 .. Len(parsed.events) :
          parsed.events[i].detail_url = parsed.events[j].detail_url => i = j
     /\ { parsed.events[i].detail_url : i \in 1 .. Len(parsed.events) }
          = { Accepted[i].detail_url : i \in 1 .. Len(Accepted) }
     /\ \A i \in 1 .. Len(parsed.events) :
          parsed.events[i] = Accepted[Last(Occurrences(parsed.events[i].detail_url))]

C12_Witness ==
  /\ parsed.kind = "candidates"
  /\ Len(Accepted) = 3 /\ Len(parsed.events) = 2
  /\ Accepted[1].detail_url = Accepted[3].detail_url
  /\ Accepted[1].title /= Accepted[3].title /\ Accepted[1].city /= Accepted[3].city
  /\ parsed.events[1] = Accepted[3]

\* C18 as the claim states it: the host of every candidate's detail_url is the
\* site's host or a subdomain of it.
InSiteDomain(host) ==
  \/ host = SiteName
  \/ host = << "www." >> \o SiteName

C18_CandidatesOnSiteDomain ==
  parsed.kind = "candidates"
  => \A i \in 1 .. Len(parsed.events) : InSiteDomain(HostOf(parsed.events[i].detail_url))

\* The strategies of the date cascade on the page handed to parse_detail
FullText == TextOf(page.nodes, 1, Len(page.nodes))
KdyHeadings == HeadingsWith(page.nodes, << "k", "d", "y" >>)
KdyText(i) == SearchText(page.nodes, Block(page.nodes, KdyHeadings[i]))
AllKdyText == Flatten([i \in 1 .. Len(KdyHeadings) |-> KdyText(i)])
ExplicitYearIn(text) == FindValidDatetimeWithYear(text)
YearLessIn(text) == FindValidDatetimeWithoutYear(text, FullText)
BlockDate(i) == IF ExplicitYearIn(KdyText(i)) /= NoDate THEN ExplicitYearIn(KdyText(i))
                ELSE YearLessIn(KdyText(i))
DatingBlocks == { i \in 1 .. Len(KdyHeadings) : BlockDate(i) /= NoDate }
FirstDatingBlock == CHOOSE i \in DatingBlocks : \A j \in DatingBlocks : i <= j
Resolved(dt) == parsed.kind = "event" /\ parsed.starts_at = dt
DetailParsed == page.kind = "detail" /\ parsed.kind /= "none"

\* C13 as the claim states it: the strategies are tried in the order (1) explicit
\* year in the 'kdy' text, (2) no year in the 'kdy' text, (3) explicit year in
\* the whole page, (4) numeric date in the whole page, and a valid dated line of
\* a 'kdy' block is the result whatever else the page holds.
C13_StrategyOrderOverAllBlocks ==
  DetailParsed
  => /\ IF ExplicitYearIn(AllKdyText) /= NoDate THEN Resolved(ExplicitYearIn(AllKdyText))
        ELSE IF YearLessIn(AllKdyText) /= NoDate THEN Resolved(YearLessIn(AllKdyText))
        ELSE IF ExplicitYearIn(FullText) /= NoDate THEN Resolved(ExplicitYearIn(FullText))
        ELSE IF FindValidNumericDate(FullText) /= NoDate
          THEN Resolved(FindValidNumericDate(FullText))
        ELSE parsed.kind = "raised"
     /\ \A i \in 1 .. Len(KdyHeadings) :
          (ExplicitYearIn(KdyText(i)) /= NoDate /\ \A j \in 1 .. i - 1 : ExplicitYearIn(KdyText(j)) = NoDate)
            => Resolved(ExplicitYearIn(KdyText(i)))

\* C13, amended: the 'kdy' blocks are tried in document order, each with (1) the
\* explicit-year pattern and then (2) the year-less pattern; the first block
\* that yields a valid date-time gives the result; then (3) the explicit-year
\* pattern and (4) the numeric pattern on the whole page; a valid dated line of
\* a 'kdy' block is the result when no earlier 'kdy' block yields a date.
C13_CascadeBlockByBlock ==
  DetailParsed
  => /\ IF DatingBlocks /= {} THEN Resolved(BlockDate(FirstDatingBlock))
        ELSE IF ExplicitYearIn(FullText) /= NoDate THEN Resolved(ExplicitYearIn(FullText))
        ELSE IF FindValidNumericDate(FullText) /= NoDate
          THEN Resolved(FindValidNumericDate(FullText))
        ELSE parsed.kind = "raised"
     /\ \A i \in 1 .. Len(KdyHeadings) :
          (ExplicitYearIn(KdyText(i)) /= NoDate /\ \A j \in 1 .. i - 1 : BlockDate(j) = NoDate)
            => Resolved(ExplicitYearIn(KdyText(i)))

\* a dated title, an empty first 'kdy' block and a dated line in the second
C13_Witness ==
  /\ DetailParsed
  /\ Len(KdyHeadings) = 2 /\ KdyText(1) = << >>
  /\ ExplicitYearIn(KdyText(2)) /= NoDate
  /\ ExplicitYearIn(FullText) /= ExplicitYearIn(KdyText(2))
  /\ Resolved(ExplicitYearIn(KdyText(2)))

\* a 'kdy' block whose first phrase gives day, month, year and hour but no minute
OnlyHourGiven(i) ==
  /\ KdyText(i) /= << >>
  /\ DatetimeRe(KdyText(i)[1]) /= NoMatch
  /\ KdyText(i)[1].minute = None
  /\ BuildDatetime(KdyText(i)[1].year, KdyText(i)[1].month, KdyText(i)[1].day,
                   KdyText(i)[1].hour, 0) /= NoDate

\* C14: parse_detail returns an Event whose starts_at has a valid year, month,
\* day, hour and minute (minute 0 when the text gives only the hour), or raises
\* ValueError, and it raises exactly when no strategy finds a valid date.
C14_ResolvedOrNoDateFound ==
  DetailParsed
  => /\ parsed.kind \in {"event", "raised"}
     /\ parsed.kind = "event"
          => /\ parsed.starts_at.year \in 1 .. 9999
             /\ parsed.starts_at.month \in 1 .. 12
             /\ parsed.starts_at.day \in 1 .. DaysInMonth(parsed.starts_at.year, parsed.starts_at.month)
             /\ parsed.starts_at.hour \in 0 .. 23
             /\ parsed.starts_at.minute \in 0 .. 59
     /\ parsed.kind = "raised"
          <=> /\ DatingBlocks = {}
              /\ ExplicitYearIn(FullText) = NoDate
              /\ FindValidNumericDate(FullText) = NoDate
     /\ parsed.kind = "raised" => parsed.exc = "ValueError"
     /\ \A i \in 1 .. Len(KdyHeadings) :
          (OnlyHourGiven(i) /\ \A j \in 1 .. i - 1 : BlockDate(j) = NoDate)
            => /\ parsed.kind = "event"
               /\ parsed.starts_at.hour = KdyText(i)[1].hour
               /\ parsed.starts_at.minute = 0

C14_Witness ==
  /\ DetailParsed
  /\ Len(KdyHeadings) = 1 /\ OnlyHourGiven(1)
  /\ parsed.kind = "event" /\ parsed.starts_at.hour = 15 /\ parsed.starts_at.minute = 0

\* the text behind the first 'kde' heading up to the next heading: the texts of
\* the nodes of its block, joined by ", ", without commas and blanks at the ends
KdeHeadings == HeadingsWith(page.nodes, << "k", "d", "e" >>)
KdeBlockTexts ==
  LET block == Block(page.nodes, KdeHeadings[1])
      texts == [n \in 1 .. Len(block) |-> RenderText(GetText(page.nodes, block[n]))]
  IN  SelectSeq(texts, LAMBDA t : t /= << >>)
KdeText ==
  IF KdeHeadings = << >> THEN << >> ELSE Strip(Join(KdeBlockTexts, << ",", " " >>), {",", " "})

\* C15: the location of a returned Event is never empty: it is the text behind
\* the 'kde' heading if that is not empty, else the city if that is not empty,
\* else "Neuvedeno".
C15_LocationNeverEmpty ==
  (DetailParsed /\ parsed.kind = "event")
  => /\ parsed.location /= << >>
     /\ parsed.location = IF KdeText /= << >> THEN KdeText
                          ELSE IF page.city /= << >> THEN page.city
                          ELSE Neuvedeno

\* a 'kde' block that holds nothing but a comma, and no city
C15_Witness ==
  /\ DetailParsed /\ parsed.kind = "event"
  /\ KdeHeadings /= << >> /\ KdeBlockTexts = << Comma >>
  /\ page.city = << >>
  /\ parsed.location = Neuvedeno

\* a phrase that gives day, month name and hour but no year, and is a valid
\* date in the year y
YearLessDate(ph, y) ==
  /\ ph.k = "named" /\ ph.year = 0 /\ ph.hour >= 0
  /\ BuildDatetime(y, ph.month, ph.day, ph.hour, MinuteOr00(ph.minute)) /= NoDate

\* the first year token 2000..2099 of the page, looked up phrase by phrase
YearTokens ==
  { n \in 1 .. Len(FullText) :
      FullText[n].k \in {"named", "numeric", "year"} /\ FullText[n].year \in 2000 .. 2099 }
FirstYearToken ==
  IF YearTokens = {} THEN 0
  ELSE FullText[CHOOSE n \in YearTokens : \A m \in YearTokens : n <= m].year

\* the first 'kdy' block to be searched that holds such a date and no valid
\* date with a year
NeedsYear(i) ==
  /\ \A j \in 1 .. i - 1 : BlockDate(j) = NoDate
  /\ ExplicitYearIn(KdyText(i)) = NoDate
  /\ \E n \in 1 .. Len(KdyText(i)) : YearLessDate(KdyText(i)[n], IF FirstYearToken /= 0 THEN FirstYearToken ELSE 2000)

\* the cascade without the 'kdy' blocks up to block i
RestOfCascade(i) ==
  LET later == { j \in DatingBlocks : j > i }
  IN  IF later /= {} THEN Resolved(BlockDate(CHOOSE j \in later : \A m \in later : j <= m))
      ELSE IF ExplicitYearIn(FullText) /= NoDate THEN Resolved(ExplicitYearIn(FullText))
      ELSE IF FindValidNumericDate(FullText) /= NoDate
        THEN Resolved(FindValidNumericDate(FullText))
      ELSE parsed.kind = "raised"

\* C16: when the 'kdy' block holds a date without a year and no valid date with
\* a year, starts_at takes its year from the first year token 2000..2099 of the
\* whole page and its day, month and time from a phrase of the block; when the
\* page holds no such token, the block yields nothing and the cascade goes on.
C16_YearFromFirstYearToken ==
  DetailParsed
  => \A i \in 1 .. Len(KdyHeadings) :
       NeedsYear(i)
       => IF FirstYearToken /= 0
            THEN /\ parsed.kind = "event"
                 /\ parsed.starts_at.year = FirstYearToken
                 /\ \E n \in 1 .. Len(KdyText(i)) :
                      LET match == DatetimeWithoutYearRe(KdyText(i)[n])
                      IN  /\ match /= NoMatch
                          /\ parsed.starts_at
                               = BuildDatetime(FirstYearToken, match.month, match.day,
                                               match.hour, MinuteOr00(match.minute))
            ELSE RestOfCascade(i)

\* the year stands in the title, before the block, and a later year follows
C16_Witness ==
  /\ DetailParsed /\ parsed.kind = "event"
  /\ Len(KdyHeadings) = 2 /\ NeedsYear(1)
  /\ FirstYearToken = 2025 /\ YearRe(KdyText(2)) = 2027
  /\ parsed.starts_at = [year |-> 2025, month |-> 2, day |-> 14, hour |-> 15, minute |-> 0]

C16_WitnessNoYear ==
  /\ DetailParsed /\ parsed.kind = "event"
  /\ Len(KdyHeadings) = 1 /\ NeedsYear(1) /\ FirstYearToken = 0
  /\ parsed.starts_at.year = 1999

\* The walk behind the first 'informace' heading, node by node
InfoHeading == HeadingsWith(page.nodes, Informace)[1]
Following == InfoHeading + 1 .. Len(page.nodes)
LabelOfHeading(j) ==
  /\ page.nodes[j].kind = "text"
  /\ j <= EndOf(page.nodes, InfoHeading, InfoHeading)
  /\ page.nodes[j].depth = page.nodes[InfoHeading].depth + 1
NodeText(j) == RenderText(page.nodes[j].text)
IsLabel(text) == Lower(Strip(text, {" ", ":"})) \in {Informace, Vstupenky}
Stops(j) ==
  \/ IsHeading(page.nodes[j])
  \/ /\ page.nodes[j].kind = "text" /\ ~LabelOfHeading(j)
     /\ Contains(Lower(NodeText(j)), AllEvents)
StoppingPoint ==
  IF \E j \in Following : Stops(j)
    THEN CHOOSE j \in Following : Stops(j) /\ \A m \in Following : Stops(m) => j <= m
    ELSE Len(page.nodes) + 1
KeptBefore(stop) ==
  { j \in Following :
      /\ j < stop
      /\ page.nodes[j].kind = "text" /\ ~LabelOfHeading(j)
      /\ NodeText(j) /= << >> /\ ~IsLabel(NodeText(j)) }
RECURSIVE KeptTexts(_)
KeptTexts(S) ==
  IF S = {} THEN << >>
  ELSE LET j == CHOOSE n \in S : \A m \in S : n <= m
       IN  << NodeText(j) >> \o KeptTexts(S \ {j})

\* C19: information_text is the newline-joined text of the text nodes behind
\* the 'informace' heading in document order, nested or not, up to the first h2
\* or h3 or the first text node with the 'all events' phrase, without the nodes
\* that are just the label 'informace' or 'vstupenky'; it is empty when nothing
\* is kept or there is no such heading.
C19_InformationText ==
  (DetailParsed /\ parsed.kind = "event")
  => IF HeadingsWith(page.nodes, Informace) = << >> THEN parsed.information_text = << >>
     ELSE LET stop == StoppingPoint
          IN  /\ parsed.information_text = Join(KeptTexts(KeptBefore(stop)), << "\n" >>)
              /\ \A j \in Following :
                   (j >= stop /\ page.nodes[j].kind = "text" /\ NodeText(j) /= << >>)
                     => ~Contains(parsed.information_text, NodeText(j))

\* the heading stands alone in a wrapper, the text is two levels down in the
\* next one, a label is dropped and the 'all events' paragraph ends the walk
C19_Witness ==
  /\ DetailParsed /\ parsed.kind = "event"
  /\ HeadingsWith(page.nodes, Informace) /= << >>
  /\ page.nodes[InfoHeading].depth = 1
  /\ parsed.information_text = Vstup
  /\ LET stop == StoppingPoint
     IN  /\ \E j \in Following : IsLabel(NodeText(j)) /\ j < stop
         /\ stop <= Len(page.nodes) /\ page.nodes[stop].kind = "text"

\* a step that makes one HTTP request, and the steps that handle a 429
Requests == requests_made' = requests_made + 1
Answered429 == Requests /\ last_response'.kind = "http" /\ last_response'.status = 429
AnsweredOk == Requests /\ last_response'.kind = "ok"
Handles429 ==
  /\ op = "collect_events" /\ pc = "fetched" /\ target >= 1
  /\ outcome.kind = "raised" /\ outcome.exc = "HTTPError" /\ last_response.status = 429

\* C21: current_delay changes only by escalation on a 429 response and by
\* relaxation on a successful response; a request that ends in a timeout, a
\* connection failure, a 4xx other than 429 or a 5xx leaves it as it is, and so
\* do the sleeps and the parsing steps.
C21_DelayChangesOnlyOn429AndSuccess ==
  [][/\ current_delay' > current_delay => (Answered429 \/ Handles429)
     /\ current_delay' < current_delay => AnsweredOk
     /\ (Requests /\ last_response'.kind \in {"timeout", "connerr"})
          => current_delay' = current_delay
     /\ (Requests /\ last_response'.kind = "http" /\ last_response'.status /= 429)
          => current_delay' = current_delay
     /\ (pc = "fetched" /\ ~Handles429) => current_delay' = current_delay]_vars

\* a 500 answered while the delay is raised: the retry wait follows and the
\* delay is what it was before the request
C21_Witness ==
  /\ pc = "attempt" /\ requests_made >= 2
  /\ last_response.kind = "http" /\ last_response.status = 500
  /\ last_io.what = "sleep" /\ last_io.by = "retry"
  /\ current_delay > request_delay /\ current_delay = delay_before


=============================================================================
